---- MODULE Spec2Model ----
(***************************************************************************)
(* Model of src/src/App.tsx: the QR-code form component.                   *)
(*                                                                         *)
(* Strings are sequences of one-character strings, '' is <<>>.  FormData   *)
(* is a function whose domain is the set of fields that have been set.     *)
(* The image renderer (QRCode.toDataURL) is an external promise: a submit  *)
(* that reaches the await stays in `inflight` until the promise settles.   *)
(* Pending promises settle in any order, so `inflight` is a bag.           *)
(***************************************************************************)
EXTENDS Integers, Sequences, FiniteSets, Bags, TLC

VARIABLES qrType, formData, qrUrl, error,   \* the four useState cells
          inflight,                         \* handleSubmit calls suspended at the await
          lastEvent, calls, lastOutcome,    \* history: last handler run, what it invoked, how the last attempt ended
          qrStale, errStale,                \* history: qrUrl / error was written by a render issued before the last type switch
          fnPc, fnValid, fnContent, fnAgain \* direct application of the two pure functions

vars == <<qrType, formData, qrUrl, error, inflight, lastEvent, calls, lastOutcome,
          qrStale, errStale, fnPc, fnValid, fnContent, fnAgain>>

uiVars == <<qrUrl, error, inflight, lastEvent, calls, lastOutcome, qrStale, errStale>>

fnVars == <<fnPc, fnValid, fnContent, fnAgain>>

(***************************************************************************)
(* Bounds of the model.                                                    *)
(***************************************************************************)
MaxChunks == 3

MaxInFlight == 2

RenderCapacity == 32

(***************************************************************************)
(* String primitives used by the code.                                     *)
(***************************************************************************)
RECURSIVE Concat(_)
Concat(parts) == IF parts = <<>> THEN <<>> ELSE Head(parts) \o Concat(Tail(parts))

startsWith(s, p) == Len(s) >= Len(p) /\ SubSeq(s, 1, Len(p)) = p

includes(s, ch) == \E i \in 1..Len(s) : s[i] = ch

Whitespace == {" ", "\t", "\n"}

PhoneSeparators == Whitespace \cup {"-", "(", ")"}

RemoveAll(s, chars) == SelectSeq(s, LAMBDA c : c \notin chars)

Unreserved ==
  {"a", "b", "c", "d", "e", "f", "g", "h", "i", "j", "k", "l", "m", "n", "o", "p", "q",
   "r", "s", "t", "u", "v", "w", "x", "y", "z",
   "A", "B", "C", "D", "E", "F", "G", "H", "I", "J", "K", "L", "M", "N", "O", "P", "Q",
   "R", "S", "T", "U", "V", "W", "X", "Y", "Z",
   "0", "1", "2", "3", "4", "5", "6", "7", "8", "9",
   "-", "_", ".", "!", "~", "*", "'", "(", ")"}

PercentCode(c) ==
  CASE c = " " -> <<"%", "2", "0">>
    [] c = "&" -> <<"%", "2", "6">>
    [] c = "/" -> <<"%", "2", "F">>
    [] c = ":" -> <<"%", "3", "A">>
    [] c = ";" -> <<"%", "3", "B">>
    [] c = "=" -> <<"%", "3", "D">>
    [] c = "?" -> <<"%", "3", "F">>
    [] c = "@" -> <<"%", "4", "0">>
    [] c = "%" -> <<"%", "2", "5">>
    [] c = "\t" -> <<"%", "0", "9">>
    [] c = "\n" -> <<"%", "0", "A">>

encodeURIComponent(s) ==
  Concat([i \in 1..Len(s) |-> IF s[i] \in Unreserved THEN <<s[i]>> ELSE PercentCode(s[i])])

(***************************************************************************)
(* FormData access.                                                        *)
(***************************************************************************)
EmptyData == [f \in {} |-> <<>>]

\* data.f || ''  for a string field
OrEmpty(data, f) == IF f \in DOMAIN data THEN data[f] ELSE <<>>

\* Boolean(data.f) for a string field
Truthy(data, f) == f \in DOMAIN data /\ data[f] # <<>>

\* data.hidden ? ... : ...
IsHidden(data) == "hidden" \in DOMAIN data /\ data["hidden"] = TRUE

(***************************************************************************)
(* generateQRContent                                                       *)
(***************************************************************************)
wifiContent(data) ==
  <<"W", "I", "F", "I", ":", "T", ":", "W", "P", "A", ";", "S", ":">> \o OrEmpty(data, "ssid")
    \o <<";", "P", ":">> \o OrEmpty(data, "password")
    \o <<";", "H", ":">>
    \o (IF IsHidden(data) THEN <<"t", "r", "u", "e">> ELSE <<"f", "a", "l", "s", "e">>)
    \o <<";", ";">>

\* Seeded fault: the '&' before body= is written whether or not a subject precedes it.
emailContent_AlwaysAmpersand(data) ==
  LET email == OrEmpty(data, "email")
      subject == encodeURIComponent(OrEmpty(data, "emailSubject"))
      body == encodeURIComponent(OrEmpty(data, "emailBody"))
      mailtoLink == <<"m", "a", "i", "l", "t", "o", ":">> \o email
  IN IF subject # <<>> \/ body # <<>>
       THEN mailtoLink \o <<"?">>
              \o (IF subject # <<>>
                    THEN <<"s", "u", "b", "j", "e", "c", "t", "=">> \o subject
                    ELSE <<>>)
              \o (IF body # <<>> THEN <<"&">> \o <<"b", "o", "d", "y", "=">> \o body ELSE <<>>)
       ELSE mailtoLink

emailContent(data) ==
  LET email == OrEmpty(data, "email")
      subject == encodeURIComponent(OrEmpty(data, "emailSubject"))
      body == encodeURIComponent(OrEmpty(data, "emailBody"))
      mailtoLink == <<"m", "a", "i", "l", "t", "o", ":">> \o email
  IN IF subject # <<>> \/ body # <<>>
       THEN mailtoLink \o <<"?">>
              \o (IF subject # <<>>
                    THEN <<"s", "u", "b", "j", "e", "c", "t", "=">> \o subject
                    ELSE <<>>)
              \o (IF body # <<>>
                    THEN (IF subject # <<>> THEN <<"&">> ELSE <<>>)
                           \o <<"b", "o", "d", "y", "=">> \o body
                    ELSE <<>>)
       ELSE mailtoLink

phoneContent(data) ==
  <<"t", "e", "l", ":">> \o RemoveAll(OrEmpty(data, "phone"), Whitespace)

\* Seeded fault: only https:// counts as an existing scheme.
urlContent_HttpsOnly(data) ==
  LET url == OrEmpty(data, "url")
  IN IF url # <<>> /\ ~startsWith(url, <<"h", "t", "t", "p", "s", ":", "/", "/">>)
       THEN <<"h", "t", "t", "p", "s", ":", "/", "/">> \o url
       ELSE url

\* Seeded fault: the scheme test compares the wrong way round, so a short url is
\* prefixed again and again.
urlContent_SchemeStartsWithUrl(data) ==
  LET url == OrEmpty(data, "url")
  IN IF url # <<>>
        /\ ~startsWith(<<"h", "t", "t", "p", ":", "/", "/">>, url)
        /\ ~startsWith(<<"h", "t", "t", "p", "s", ":", "/", "/">>, url)
       THEN <<"h", "t", "t", "p", "s", ":", "/", "/">> \o url
       ELSE url

urlContent(data) ==
  LET url == OrEmpty(data, "url")
  IN IF url # <<>>
        /\ ~startsWith(url, <<"h", "t", "t", "p", ":", "/", "/">>)
        /\ ~startsWith(url, <<"h", "t", "t", "p", "s", ":", "/", "/">>)
       THEN <<"h", "t", "t", "p", "s", ":", "/", "/">> \o url
       ELSE url

textContent(data) == OrEmpty(data, "text")

generateQRContent(type, data) ==
  CASE type = "wifi" -> wifiContent(data)
    [] type = "email" -> emailContent(data)
    [] type = "phone" -> phoneContent(data)
    [] type = "url" -> urlContent(data)
    [] type = "text" -> textContent(data)
    [] OTHER -> <<>>

(***************************************************************************)
(* validateInput                                                           *)
(***************************************************************************)
validWifi(data) == Truthy(data, "ssid")

validEmail(data) == Truthy(data, "email") /\ includes(data["email"], "@")

\* Seeded fault: > 10 instead of >= 10.
validPhone_StrictlyMore(data) ==
  Truthy(data, "phone") /\ Len(RemoveAll(data["phone"], PhoneSeparators)) > 10

validPhone(data) ==
  Truthy(data, "phone") /\ Len(RemoveAll(data["phone"], PhoneSeparators)) >= 10

validUrl(data) == Truthy(data, "url")

\* Seeded fault: tests that the field is set instead of that it is non-empty.
validText_DefinedOnly(data) == "text" \in DOMAIN data

validText(data) == Truthy(data, "text")

validateInput(type, data) ==
  CASE type = "wifi" -> validWifi(data)
    [] type = "email" -> validEmail(data)
    [] type = "phone" -> validPhone(data)
    [] type = "url" -> validUrl(data)
    [] type = "text" -> validText(data)
    [] OTHER -> FALSE

(***************************************************************************)
(* handleSubmit, the renderer and the two change handlers.                 *)
(***************************************************************************)
QRTypes == {"url", "text", "email", "wifi", "phone"}

ValidationMsg == "Please fill in all required fields correctly"

RenderFailedMsg == "Failed to generate QR code"

\* Seeded fault: the content is encoded and handed to the renderer before the validator is asked.
SubmitPlan_RenderBeforeValidate(type, data) ==
  IF type = ""
    THEN [ran |-> FALSE, accepted |-> FALSE, encoder |-> FALSE, renderer |-> FALSE,
          content |-> <<>>]
    ELSE [ran |-> TRUE, accepted |-> validateInput(type, data), encoder |-> TRUE,
          renderer |-> TRUE, content |-> generateQRContent(type, data)]

\* What one run of handleSubmit does up to its await: whether it got past the
\* unset-type return, what the validator said, and which collaborators it called.
SubmitPlan(type, data) ==
  IF type = ""
    THEN [ran |-> FALSE, accepted |-> FALSE, encoder |-> FALSE, renderer |-> FALSE,
          content |-> <<>>]
    ELSE IF ~validateInput(type, data)
      THEN [ran |-> TRUE, accepted |-> FALSE, encoder |-> FALSE, renderer |-> FALSE,
            content |-> <<>>]
      ELSE [ran |-> TRUE, accepted |-> TRUE, encoder |-> TRUE, renderer |-> TRUE,
            content |-> generateQRContent(type, data)]

\* QRCode.toDataURL settles with an image or rejects (empty or over-capacity input).
toDataURL(content) ==
  IF content = <<>> \/ Len(content) > RenderCapacity
    THEN [ok |-> FALSE, url |-> <<>>]
    ELSE [ok |-> TRUE, url |-> <<"d", "a", "t", "a", ":">> \o content]

handleSubmit ==
  LET plan == SubmitPlan(qrType, formData)
      rejected == plan.ran /\ ~plan.accepted
  IN /\ plan.renderer => BagCardinality(inflight) < MaxInFlight
     /\ calls' = [k \in {"ran", "accepted", "encoder", "renderer"} |-> plan[k]]
     /\ inflight' = IF plan.renderer
                      THEN inflight (+) SetToBag({[content |-> plan.content, stale |-> FALSE]})
                      ELSE inflight
     /\ error' = IF rejected THEN ValidationMsg ELSE error
     /\ errStale' = IF rejected THEN FALSE ELSE errStale
     /\ lastOutcome' = IF rejected THEN "rejected" ELSE lastOutcome
     /\ lastEvent' = "submit"
     /\ UNCHANGED <<qrType, formData, qrUrl, qrStale, fnVars>>

\* The continuation of handleSubmit after the await: lines 95-96 or the catch block.
RenderSettled(req) ==
  LET res == toDataURL(req.content)
  IN /\ inflight' = inflight (-) SetToBag({req})
     /\ qrUrl' = IF res.ok THEN res.url ELSE qrUrl
     /\ error' = IF res.ok THEN "" ELSE RenderFailedMsg
     /\ qrStale' = IF res.ok THEN req.stale ELSE qrStale
     /\ errStale' = IF res.ok THEN FALSE ELSE req.stale
     /\ lastOutcome' = IF res.ok THEN "rendered" ELSE "renderFailed"
     /\ lastEvent' = "settled"
     /\ UNCHANGED <<qrType, formData, calls, fnVars>>

RenderDone == \E req \in BagToSet(inflight) : RenderSettled(req)

\* Every pending request now predates the type switch.
MarkStale(pending) ==
  LET old(r) == [r EXCEPT !.stale = TRUE]
  IN [s \in {old(r) : r \in BagToSet(pending)} |->
        CopiesIn(s, pending) + CopiesIn([s EXCEPT !.stale = FALSE], pending)]

\* Seeded fault: the handler forgets setQrUrl('').
selectOnChange_KeepsOutput(t) ==
  /\ t # qrType
  /\ qrType' = t
  /\ formData' = EmptyData
  /\ error' = ""
  /\ inflight' = MarkStale(inflight)
  /\ qrStale' = FALSE
  /\ errStale' = FALSE
  /\ lastEvent' = "typeChange"
  /\ UNCHANGED <<qrUrl, calls, lastOutcome, fnVars>>

selectOnChange(t) ==
  /\ t # qrType
  /\ qrType' = t
  /\ formData' = EmptyData
  /\ qrUrl' = <<>>
  /\ error' = ""
  /\ inflight' = MarkStale(inflight)
  /\ qrStale' = FALSE
  /\ errStale' = FALSE
  /\ lastEvent' = "typeChange"
  /\ UNCHANGED <<calls, lastOutcome, fnVars>>

ChangeType == \E t \in QRTypes \cup {""} : selectOnChange(t)

\* The string inputs renderDynamicInputs shows for each type.
StringFields(type) ==
  CASE type = "url" -> {"url"}
    [] type = "text" -> {"text"}
    [] type = "email" -> {"email", "emailSubject", "emailBody"}
    [] type = "wifi" -> {"ssid", "password"}
    [] type = "phone" -> {"phone"}
    [] OTHER -> {}

LongText == [i \in 1..(RenderCapacity + 1) |-> "a"]

\* Values the user types into each input.
TypedValues(name) ==
  CASE name = "url" -> {<<>>, <<"a">>}
    [] name = "text" -> {<<>>, <<"a">>, LongText}
    [] name = "email" -> {<<"a">>, <<"a", "@", "b">>}
    [] name = "emailSubject" -> {<<"H", "i">>}
    [] name = "emailBody" -> {<<"H", "i">>}
    [] name = "ssid" -> {<<"a">>}
    [] name = "password" -> {<<"p">>}
    [] name = "phone" -> {<<>>, <<"1", "2", "3", "4">>,
                          <<"1", "2", "3", "4", "5", "1", "2", "3", "4", "5">>}

\* setFormData(prev => ({...prev, [name]: value}))
Assign(data, name, value) ==
  [f \in DOMAIN data \cup {name} |-> IF f = name THEN value ELSE data[f]]

handleInputChange ==
  \/ /\ \E name \in StringFields(qrType) :
          \E value \in TypedValues(name) :
             /\ value # OrEmpty(formData, name)
             /\ formData' = Assign(formData, name, value)
     /\ lastEvent' = "input"
     /\ UNCHANGED <<qrType, qrUrl, error, inflight, calls, lastOutcome, qrStale, errStale,
                    fnVars>>
  \/ /\ qrType = "wifi"
     /\ formData' = Assign(formData, "hidden", ~IsHidden(formData))
     /\ lastEvent' = "input"
     /\ UNCHANGED <<qrType, qrUrl, error, inflight, calls, lastOutcome, qrStale, errStale,
                    fnVars>>

Init ==
  /\ qrType = ""
  /\ formData = EmptyData
  /\ qrUrl = <<>>
  /\ error = ""
  /\ inflight = EmptyBag
  /\ lastEvent = "none"
  /\ calls = [k \in {"ran", "accepted", "encoder", "renderer"} |-> FALSE]
  /\ lastOutcome = "none"
  /\ qrStale = FALSE
  /\ errStale = FALSE
  /\ fnPc = "idle"
  /\ fnValid = FALSE
  /\ fnContent = <<>>
  /\ fnAgain = <<>>

Next == ChangeType \/ handleInputChange \/ handleSubmit \/ RenderDone

Spec == Init /\ [][Next]_vars

\* The form used as section 5 of the specification assumes: one submit at a time.
SerialSubmit == inflight = EmptyBag /\ handleSubmit

NextSerial == ChangeType \/ handleInputChange \/ SerialSubmit \/ RenderDone

SpecSerial == Init /\ [][NextSerial]_vars

(***************************************************************************)
(* The two pure functions applied directly to enumerated inputs.           *)
(***************************************************************************)
\* All concatenations of at most n of the given pieces.
RECURSIVE Words(_, _)
Words(pieces, n) ==
  IF n = 0 THEN {<<>>}
  ELSE {<<>>} \cup {p \o w : p \in pieces, w \in Words(pieces, n - 1)}

SsidPieces == {<<"a">>, <<";">>, <<"W", "I", "F", "I", ":">>}

PasswordValues == {<<>>, <<"p">>, <<"W", "I", "F", "I", ":">>}

EmailPieces == {<<"a">>, <<"@">>, <<"&">>, <<"?">>, <<"m", "a", "i", "l", "t", "o", ":">>}

SubjectValues == {<<>>, <<"H", "i">>, <<"a", " ", "b">>, <<"a", "&", "b">>}

BodyValues == {<<>>, <<"H", "i">>, <<"a", "?", "b">>}

PhonePieces == {<<"1", "2", "3", "4", "5">>, <<"1", "2", "3", "4">>, <<" ">>, <<"-">>,
                <<"(">>, <<")">>, <<"t", "e", "l", ":">>}

UrlPieces == {<<"a">>, <<".">>, <<" ">>, <<"h">>, <<"h", "t", "t", "p", ":", "/", "/">>,
              <<"h", "t", "t", "p", "s", ":", "/", "/">>}

TextPieces == {<<"a">>, <<" ">>, <<"\n">>}

\* FormData records a caller can pass for each type: every field combination of
\* the type, the record without the optional checkbox, and the empty record.
InputsOf(type) ==
  CASE type = "wifi" ->
         [ssid : Words(SsidPieces, MaxChunks), password : PasswordValues, hidden : BOOLEAN]
           \cup [ssid : Words(SsidPieces, MaxChunks), password : PasswordValues]
    [] type = "email" ->
         [email : Words(EmailPieces, MaxChunks), emailSubject : SubjectValues,
          emailBody : BodyValues]
    [] type = "phone" -> [phone : Words(PhonePieces, MaxChunks)]
    [] type = "url" -> [url : Words(UrlPieces, MaxChunks)]
    [] type = "text" -> [text : Words(TextPieces, MaxChunks)]
    [] OTHER -> [url : {<<"a">>}, text : {<<"a">>}]

InitFn ==
  /\ qrType \in QRTypes \cup {""}
  /\ formData \in InputsOf(qrType) \cup {EmptyData}
  /\ qrUrl = <<>>
  /\ error = ""
  /\ inflight = EmptyBag
  /\ lastEvent = "none"
  /\ calls = [k \in {"ran", "accepted", "encoder", "renderer"} |-> FALSE]
  /\ lastOutcome = "none"
  /\ qrStale = FALSE
  /\ errStale = FALSE
  /\ fnPc = "input"
  /\ fnValid = FALSE
  /\ fnContent = <<>>
  /\ fnAgain = <<>>

FnValidate ==
  /\ fnPc = "input"
  /\ fnValid' = validateInput(qrType, formData)
  /\ fnPc' = "validated"
  /\ UNCHANGED <<qrType, formData, uiVars, fnContent, fnAgain>>

FnEncode ==
  /\ fnPc = "validated"
  /\ fnContent' = generateQRContent(qrType, formData)
  /\ fnPc' = "encoded"
  /\ UNCHANGED <<qrType, formData, uiVars, fnValid, fnAgain>>

\* Encoding the encoder's own output as a url value.
FnReencode ==
  /\ fnPc = "encoded"
  /\ qrType = "url"
  /\ fnAgain' = generateQRContent("url", [url |-> fnContent])
  /\ fnPc' = "reencoded"
  /\ UNCHANGED <<qrType, formData, uiVars, fnValid, fnContent>>

NextFn == FnValidate \/ FnEncode \/ FnReencode

SpecFn == InitFn /\ [][NextFn]_vars

(***************************************************************************)
(* Properties.                                                             *)
(***************************************************************************)
Applied == fnPc \in {"validated", "encoded", "reencoded"}

Encoded == fnPc \in {"encoded", "reencoded"}

Occurrences(s, p) ==
  Cardinality({i \in 1..(Len(s) - Len(p) + 1) : SubSeq(s, i, i + Len(p) - 1) = p})

EndsWith(s, p) == Len(s) >= Len(p) /\ SubSeq(s, Len(s) - Len(p) + 1, Len(s)) = p

WifiPrefix == <<"W", "I", "F", "I", ":">>

MailtoPrefix == <<"m", "a", "i", "l", "t", "o", ":">>

TelPrefix == <<"t", "e", "l", ":">>

HttpPrefix == <<"h", "t", "t", "p", ":", "/", "/">>

HttpsPrefix == <<"h", "t", "t", "p", "s", ":", "/", "/">>

\* C1: if the most recent completed attempt ended in a render failure, no output
\* is displayed (qrUrl is empty).
C1_NoStaleOutputAfterFailure == lastOutcome = "renderFailed" => qrUrl = <<>>

\* C2: a submit that the validator rejects starts no render, invokes neither the
\* encoder nor the renderer, and leaves the validation message in error.
C2_RejectedSubmitCallsNothing ==
  [][(lastEvent' = "submit" /\ qrType # "" /\ ~validateInput(qrType, formData))
       => (/\ inflight' = inflight
           /\ ~calls'.encoder
           /\ ~calls'.renderer
           /\ error' = ValidationMsg)]_vars

C2_Witness ==
  /\ lastEvent = "submit"
  /\ qrType = "phone"
  /\ Truthy(formData, "phone")
  /\ calls.ran /\ ~calls.accepted
  /\ error = ValidationMsg

\* C3: immediately after a content-type switch the field record is empty, no
\* output is displayed and no error is shown.
C3_TypeSwitchClears ==
  lastEvent = "typeChange" => (formData = EmptyData /\ qrUrl = <<>> /\ error = "")

C3_Witness ==
  /\ lastEvent = "typeChange"
  /\ qrType = ""
  /\ lastOutcome = "rendered"
  /\ BagCardinality(inflight) > 0

\* The acceptance table of the claim.
TableAccepts(type, data) ==
  LET val(f) == IF f \in DOMAIN data THEN data[f] ELSE <<>>
  IN \/ type = "wifi" /\ Len(val("ssid")) > 0
     \/ type = "email" /\ Len(val("email")) > 0 /\ Occurrences(val("email"), <<"@">>) > 0
     \/ type = "phone"
          /\ Len(val("phone")) - Cardinality({i \in 1..Len(val("phone")) :
                                                val("phone")[i] \in {" ", "\t", "\n", "-", "(", ")"}})
               >= 10
     \/ type = "url" /\ Len(val("url")) > 0
     \/ type = "text" /\ Len(val("text")) > 0

\* C4: the validator accepts exactly the inputs the table accepts, and rejects
\* the empty field record for every type.
C4_ValidatorMatchesTable ==
  Applied => /\ fnValid <=> TableAccepts(qrType, formData)
             /\ formData = EmptyData => ~fnValid

C4_Witness ==
  /\ fnPc = "validated"
  /\ qrType = "phone"
  /\ fnValid
  /\ includes(formData["phone"], "-")
  /\ Len(formData["phone"]) = 11

PrefixCount(type, content) ==
  CASE type = "wifi" -> Occurrences(content, WifiPrefix)
    [] type = "email" -> Occurrences(content, MailtoPrefix)
    [] type = "phone" -> Occurrences(content, TelPrefix)
    [] type = "url" -> Occurrences(content, HttpPrefix) + Occurrences(content, HttpsPrefix)

LeadsWithPrefix(type, content) ==
  CASE type = "wifi" -> startsWith(content, WifiPrefix)
    [] type = "email" -> startsWith(content, MailtoPrefix)
    [] type = "phone" -> startsWith(content, TelPrefix)
    [] type = "url" -> startsWith(content, HttpPrefix) \/ startsWith(content, HttpsPrefix)

\* Occurrences of the type's prefix inside what the user typed: the ssid and the
\* password, the email address, the phone number without its whitespace, the url
\* after its own leading scheme.
TypedPrefixCount(type, data) ==
  CASE type = "wifi" ->
         Occurrences(OrEmpty(data, "ssid"), WifiPrefix)
           + Occurrences(OrEmpty(data, "password"), WifiPrefix)
    [] type = "email" -> Occurrences(OrEmpty(data, "email"), MailtoPrefix)
    [] type = "phone" ->
         Occurrences(SelectSeq(OrEmpty(data, "phone"), LAMBDA c : c \notin {" ", "\t", "\n"}),
                     TelPrefix)
    [] type = "url" ->
         LET u == OrEmpty(data, "url")
             rest == IF startsWith(u, HttpsPrefix) THEN SubSeq(u, Len(HttpsPrefix) + 1, Len(u))
                     ELSE IF startsWith(u, HttpPrefix) THEN SubSeq(u, Len(HttpPrefix) + 1, Len(u))
                     ELSE u
         IN Occurrences(rest, HttpPrefix) + Occurrences(rest, HttpsPrefix)

PrefixedCase == Encoded /\ fnValid /\ qrType \in {"wifi", "email", "phone", "url"}

\* C5 as stated: an accepted Wifi, Email, Phone or Url input encodes to a string
\* that contains the type's literal prefix exactly once.
C5_PrefixExactlyOnce == PrefixedCase => PrefixCount(qrType, fnContent) = 1

\* C5 amended: the encoded string begins with the type's prefix, and the prefix
\* occurs once more for every occurrence in the typed field values; so exactly
\* once when the typed values do not contain it.
C5_PrefixLeadsAndOnceBeyondTyped ==
  PrefixedCase =>
    /\ LeadsWithPrefix(qrType, fnContent)
    /\ PrefixCount(qrType, fnContent) = 1 + TypedPrefixCount(qrType, formData)

C5_Witness ==
  /\ PrefixedCase
  /\ qrType = "wifi"
  /\ TypedPrefixCount(qrType, formData) = 0
  /\ PrefixCount(qrType, fnContent) = 1

\* C6: a url that starts with http:// or https:// is returned unchanged, any
\* other non-empty url gets https:// prepended, and encoding the encoded url
\* again changes nothing.
C6_UrlEncodingIdempotent ==
  /\ (Encoded /\ qrType = "url") =>
       LET u == OrEmpty(formData, "url")
           prefixed == startsWith(u, HttpPrefix) \/ startsWith(u, HttpsPrefix)
       IN /\ prefixed => fnContent = u
          /\ (u # <<>> /\ ~prefixed) => fnContent = HttpsPrefix \o u
  /\ fnPc = "reencoded" => fnAgain = fnContent

C6_Witness ==
  /\ fnPc = "reencoded"
  /\ startsWith(OrEmpty(formData, "url"), HttpPrefix)
  /\ Len(formData["url"]) > Len(HttpPrefix)
  /\ fnAgain = formData["url"]

\* The query part of the claim's four cases.
ExpectedQuery(data) ==
  LET s == OrEmpty(data, "emailSubject")
      b == OrEmpty(data, "emailBody")
      SubjectParam == <<"s", "u", "b", "j", "e", "c", "t", "=">> \o encodeURIComponent(s)
      BodyParam == <<"b", "o", "d", "y", "=">> \o encodeURIComponent(b)
  IN CASE s = <<>> /\ b = <<>> -> <<>>
       [] s # <<>> /\ b = <<>> -> <<"?">> \o SubjectParam
       [] s = <<>> /\ b # <<>> -> <<"?">> \o BodyParam
       [] s # <<>> /\ b # <<>> -> <<"?">> \o SubjectParam \o <<"&">> \o BodyParam

\* Every '&' of s comes after a complete "subject=" in s.
AmpersandsFollowSubject(s) ==
  \A i \in 1..Len(s) :
     s[i] = "&" =>
       \E j \in 1..(i - 8) : SubSeq(s, j, j + 7) = <<"s", "u", "b", "j", "e", "c", "t", "=">>

EmailCase == Encoded /\ qrType = "email"

\* C7 as stated, on the inputs the validator accepts: mailto:<email> followed by
\* the query of the four cases; the output never ends in '?' and has no '&'
\* without a preceding subject=.
C7_MailtoShapeWholeOutput ==
  (EmailCase /\ fnValid) =>
    /\ fnContent = MailtoPrefix \o OrEmpty(formData, "email") \o ExpectedQuery(formData)
    /\ ~EndsWith(fnContent, <<"?">>)
    /\ AmpersandsFollowSubject(fnContent)

\* C7 amended: mailto:<email> followed by the query of the four cases, the
\* address verbatim; the query part never ends in '?' and has no '&' without a
\* preceding subject=.
C7_MailtoShapeQueryPart ==
  EmailCase =>
    LET head == MailtoPrefix \o OrEmpty(formData, "email")
        query == SubSeq(fnContent, Len(head) + 1, Len(fnContent))
    IN /\ startsWith(fnContent, head)
       /\ query = ExpectedQuery(formData)
       /\ ~EndsWith(query, <<"?">>)
       /\ AmpersandsFollowSubject(query)

C7_Witness ==
  /\ EmailCase
  /\ OrEmpty(formData, "emailSubject") = <<>>
  /\ OrEmpty(formData, "emailBody") = <<"a", "?", "b">>
  /\ includes(OrEmpty(formData, "email"), "&")
  /\ EndsWith(fnContent, <<"b", "o", "d", "y", "=", "a", "%", "3", "F", "b">>)

\* C8: at most one generate request is in flight at any time.
C8_AtMostOneInFlight == BagCardinality(inflight) <= 1

\* C9: the displayed output, and a displayed render failure, come from a render
\* issued under the currently selected type, after that type was selected.
C9_OutputBelongsToCurrentType ==
  /\ qrUrl # <<>> => ~qrStale
  /\ error = RenderFailedMsg => ~errStale

\* C10: whatever the validator accepts, the encoder turns into a non-empty string.
C10_AcceptedEncodesNonEmpty == (Encoded /\ fnValid) => fnContent # <<>>

C10_Witness ==
  /\ fnPc = "encoded"
  /\ fnValid
  /\ qrType = "text"
  /\ fnContent = <<" ">>

====
